---- MODULE Spec2Model ----
(***************************************************************************)
(* Model of the Jumbo Doll promo-shot generator: the upload intake and     *)
(* 9:16 letterbox normalisation of App.tsx, the application state kept by  *)
(* the App component, and the sequential six-pose generation loop of       *)
(* services/geminiService.ts.                                              *)
(*                                                                         *)
(* One action is one browser task: an event handler or a promise           *)
(* continuation together with the microtasks it triggers.  React state     *)
(* setters called inside one task are applied together, and the controls   *)
(* offered to the user are those rendered from the current state.          *)
(* Canvas arithmetic is modelled over exact rationals.                     *)
(*                                                                         *)
(* Spec is the whole application.  Its state space is the product of the   *)
(* upload pipeline, the selectors and the generation runs, so the          *)
(* properties are checked under specifications that take the same actions  *)
(* with the user's activity restricted: SpecUpload (concurrent uploads, no *)
(* generation), SpecNormalize (the first upload, every image shape) and    *)
(* SpecRun (generation, selector changes, and uploads taken one at a       *)
(* time).  Every behaviour of these is a behaviour of Spec.                *)
(***************************************************************************)
EXTENDS Integers, Sequences, FiniteSets, TLC

\* ---------------------------------------------------------------- bounds
MaxRuns == 2
MaxPending == 2
MaxDim == 10

\* ------------------------------------------------------ exact rationals
RECURSIVE GCD(_, _)
GCD(a, b) == IF b = 0 THEN a ELSE GCD(b, a % b)

Abs(n) == IF n < 0 THEN 0 - n ELSE n

\* the number n/d (d > 0) in lowest terms
Rat(n, d) ==
    LET g == GCD(Abs(n), d)
    IN  [n |-> n \div g, d |-> d \div g]

FromInt(i) == [n |-> i, d |-> 1]

LCM(a, b) == (a \div GCD(a, b)) * b

RatSub(a, b) ==
    LET l == LCM(a.d, b.d)
    IN  Rat(a.n * (l \div a.d) - b.n * (l \div b.d), l)

RatAdd(a, b) ==
    LET l == LCM(a.d, b.d)
    IN  Rat(a.n * (l \div a.d) + b.n * (l \div b.d), l)

RatMul(a, b) == Rat(a.n * b.n, a.d * b.d)

\* a / b for b > 0
RatDiv(a, b) == Rat(a.n * b.d, a.d * b.n)

RatLess(a, b) ==
    LET l == LCM(a.d, b.d)
    IN  a.n * (l \div a.d) < b.n * (l \div b.d)

RatLeq(a, b) == ~RatLess(b, a)

\* ------------------------------------------------------------- constants
Null == [null |-> TRUE]

\* the null of the error slot, which otherwise holds a message
NoError == "null"

canvasWidth == 720
canvasHeight == 1280

targetAspectRatio == Rat(9, 16)

POSES_PROMPTS ==
    << "hugging the doll tightly while standing, full body shot.",
       "sitting on a fluffy rug on the floor, joyfully embracing the doll.",
       "in a close-up shot, smiling warmly while hugging the doll.",
       "playfully trying to lift the oversized doll off the ground while hugging it.",
       "peeking over the top of the jumbo doll while hugging it from behind.",
       "lying on a cozy bed, cuddling with the jumbo doll." >>

\* two of the ten keys of backgroundOptions; the first is the initial value
backgroundOptions ==
    { "A beautiful white sand beach with turquoise water",
      "A cozy indoor living room with a comfortable sofa" }

InitialBackground == "A beautiful white sand beach with turquoise water"

aspectRatioOptions == { "9:16", "16:9", "1:1" }

MissingInputMessage == "Please upload both a model and a doll image."

GenerationFailedMessage ==
    "Image generation failed. This might be due to API rate limits. Please wait a moment and try again."

ReadErrorMessage == "Could not read the selected file."

DecodeErrorMessage == "Could not load image for processing."

ContextErrorMessage == "Could not get canvas context"

Slots == { "model", "doll" }

\* files the user picks while generation runs are being explored
SampleFiles ==
    { [name |-> "landscape.png", type |-> "image/png", width |-> 4000, height |-> 2000],
      [name |-> "portrait.jpg", type |-> "image/jpeg", width |-> 600, height |-> 1300] }

\* files of every small shape, and the shapes around the 9:16 boundary
Dims == (1 .. MaxDim) \cup { 9, 16, 720, 1280, 2000, 4000 }

ShapeFiles ==
    { [name |-> "shape", type |-> "image/png", width |-> w, height |-> h] :
        w \in Dims, h \in Dims }

VARIABLES
    modelImage,          \* ImageFile or Null
    dollImage,           \* ImageFile or Null
    background,          \* selected background description
    aspectRatio,         \* selected aspect ratio
    generatedImages,     \* sequence of image data URLs
    isLoading,
    error,               \* a message, or NoError
    generationProgress,
    uploads,             \* the fileHandler calls not yet settled, in selection order
    runs,                \* the handleGenerate calls not yet settled
    runCount,            \* number of generation runs started so far
    inFlight,            \* requests sent to the service and not yet answered
    latestDelivered      \* history: per slot, the file most recently selected
                         \* for it once its artifact has been delivered

vars == << modelImage, dollImage, background, aspectRatio, generatedImages,
           isLoading, error, generationProgress, uploads, runs, runCount,
           inFlight, latestDelivered >>

appState == << modelImage, dollImage, background, aspectRatio, generatedImages,
               isLoading, error, generationProgress >>

runState == << runs, runCount, inFlight >>

Init ==
    /\ modelImage = Null
    /\ dollImage = Null
    /\ background = InitialBackground
    /\ aspectRatio = "9:16"
    /\ generatedImages = << >>
    /\ isLoading = FALSE
    /\ error = NoError
    /\ generationProgress = 0
    /\ uploads = << >>
    /\ runs = {}
    /\ runCount = 0
    /\ inFlight = {}
    /\ latestDelivered = [ s \in Slots |-> Null ]

\* ------------------------------------------------- image normalisation
\* DrawRect with the comparison turned round (the image covers the canvas)
DrawRectCover(width, height) ==
    LET imageAspectRatio == Rat(width, height)
        wider == RatLess(imageAspectRatio, targetAspectRatio)
        drawWidth == IF wider THEN FromInt(canvasWidth)
                     ELSE RatMul(FromInt(canvasHeight), imageAspectRatio)
        drawHeight == IF wider THEN RatDiv(FromInt(canvasWidth), imageAspectRatio)
                      ELSE FromInt(canvasHeight)
    IN  [ x |-> RatDiv(RatSub(FromInt(canvasWidth), drawWidth), FromInt(2)),
          y |-> RatDiv(RatSub(FromInt(canvasHeight), drawHeight), FromInt(2)),
          drawWidth |-> drawWidth,
          drawHeight |-> drawHeight ]

\* The rectangle ctx.drawImage is given for a decoded image of the given
\* size on the fixed 720 x 1280 canvas.
DrawRect(width, height) ==
    LET imageAspectRatio == Rat(width, height)
        wider == RatLess(targetAspectRatio, imageAspectRatio)
        drawWidth == IF wider THEN FromInt(canvasWidth)
                     ELSE RatMul(FromInt(canvasHeight), imageAspectRatio)
        drawHeight == IF wider THEN RatDiv(FromInt(canvasWidth), imageAspectRatio)
                      ELSE FromInt(canvasHeight)
    IN  [ x |-> RatDiv(RatSub(FromInt(canvasWidth), drawWidth), FromInt(2)),
          y |-> RatDiv(RatSub(FromInt(canvasHeight), drawHeight), FromInt(2)),
          drawWidth |-> drawWidth,
          drawHeight |-> drawHeight ]

\* The ImageFile processImageTo9x16 resolves with: the canvas (black, with
\* the image drawn into DrawRect) encoded once, as payload and as preview.
ProcessedImage(file) ==
    LET canvas == [ image |-> file.name,
                    width |-> file.width,
                    height |-> file.height,
                    rect |-> DrawRect(file.width, file.height) ]
        newDataUrl == [ mimeType |-> file.type, data |-> canvas ]
    IN  [ base64 |-> newDataUrl.data,
          mimeType |-> file.type,
          previewUrl |-> newDataUrl ]

\* ---------------------------------------------------------- upload intake
Remove(seq, k) == SubSeq(seq, 1, k - 1) \o SubSeq(seq, k + 1, Len(seq))

SlotImage(slot) == IF slot = "model" THEN modelImage ELSE dollImage

\* handleModelImageChange / handleDollImageChange: fileHandler starts a
\* FileReader of its own for the chosen file.  The uploads already pending
\* for the slot are no longer the user's latest choice for it.
FileHandler(slot, file) ==
    /\ Len(uploads) < MaxPending
    /\ uploads' = Append(
           [ u \in DOMAIN uploads |->
               IF uploads[u].slot = slot
               THEN [uploads[u] EXCEPT !.superseded = TRUE]
               ELSE uploads[u] ],
           [ slot |-> slot, file |-> file, stage |-> "reading",
             superseded |-> FALSE ])
    /\ latestDelivered' = [latestDelivered EXCEPT ![slot] = Null]
    /\ UNCHANGED << appState, runState >>

\* reader.onload: processImageTo9x16 sets image.src and the handler awaits.
ReaderOnload(u) ==
    /\ uploads[u].stage = "reading"
    /\ uploads' = [uploads EXCEPT ![u].stage = "decoding"]
    /\ UNCHANGED << appState, runState, latestDelivered >>

\* reader.onerror
ReaderOnerror(u) ==
    /\ uploads[u].stage = "reading"
    /\ uploads' = Remove(uploads, u)
    /\ error' = ReadErrorMessage
    /\ UNCHANGED << modelImage, dollImage, background, aspectRatio,
                    generatedImages, isLoading, generationProgress, runState,
                    latestDelivered >>

\* image.onload with a 2d context: the promise resolves and the awaiting
\* handler passes the result to the slot's setter.
ImageOnload(u) ==
    /\ uploads[u].stage = "decoding"
    /\ LET processedImage == ProcessedImage(uploads[u].file)
       IN  IF uploads[u].slot = "model"
           THEN modelImage' = processedImage /\ UNCHANGED dollImage
           ELSE dollImage' = processedImage /\ UNCHANGED modelImage
    /\ uploads' = Remove(uploads, u)
    /\ latestDelivered' =
           IF uploads[u].superseded THEN latestDelivered
           ELSE [latestDelivered EXCEPT ![uploads[u].slot] = uploads[u].file]
    /\ UNCHANGED << background, aspectRatio, generatedImages, isLoading, error,
                    generationProgress, runState >>

\* image.onload when canvas.getContext('2d') returns null: reject, caught.
ImageOnloadNoContext(u) ==
    /\ uploads[u].stage = "decoding"
    /\ uploads' = Remove(uploads, u)
    /\ error' = ContextErrorMessage
    /\ UNCHANGED << modelImage, dollImage, background, aspectRatio,
                    generatedImages, isLoading, generationProgress, runState,
                    latestDelivered >>

\* ImageOnerror that also resets the slot
ImageOnerrorClearsSlot(u) ==
    /\ uploads[u].stage = "decoding"
    /\ uploads' = Remove(uploads, u)
    /\ error' = DecodeErrorMessage
    /\ IF uploads[u].slot = "model"
       THEN modelImage' = Null /\ UNCHANGED dollImage
       ELSE dollImage' = Null /\ UNCHANGED modelImage
    /\ UNCHANGED << background, aspectRatio, generatedImages, isLoading,
                    generationProgress, runState, latestDelivered >>

\* image.onerror: reject, caught.
ImageOnerror(u) ==
    /\ uploads[u].stage = "decoding"
    /\ uploads' = Remove(uploads, u)
    /\ error' = DecodeErrorMessage
    /\ UNCHANGED << modelImage, dollImage, background, aspectRatio,
                    generatedImages, isLoading, generationProgress, runState,
                    latestDelivered >>

\* ------------------------------------------------------------- selectors
SetBackground(b) ==
    /\ b # background
    /\ background' = b
    /\ UNCHANGED << modelImage, dollImage, aspectRatio, generatedImages,
                    isLoading, error, generationProgress, uploads, runState,
                    latestDelivered >>

SetAspectRatio(a) ==
    /\ a # aspectRatio
    /\ aspectRatio' = a
    /\ UNCHANGED << modelImage, dollImage, background, generatedImages,
                    isLoading, error, generationProgress, uploads, runState,
                    latestDelivered >>

\* ------------------------------------------------------ geminiService.ts
NumPoses == Len(POSES_PROMPTS)

getRatioDescription(ratio) ==
    CASE ratio = "16:9" -> "horizontal 16:9 landscape"
      [] ratio = "1:1" -> "square 1:1"
      [] OTHER -> "vertical 9:16 portrait"

\* The generateContent call generateSingleImage makes for one pose: the two
\* inline images and the text prompt with its three substitutions.  run
\* names the generatePromotionalImages call it belongs to.
ContentRequest(run, model, doll, posePrompt, bg, ratio) ==
    [ run |-> run,
      parts |-> << [ data |-> model.base64, mimeType |-> model.mimeType ],
                   [ data |-> doll.base64, mimeType |-> doll.mimeType ] >>,
      text |-> [ ratio |-> getRatioDescription(ratio),
                 action |-> posePrompt,
                 background |-> bg ] ]

\* PoseRequest reading the inputs from the application state of the moment
PoseRequestCurrentInputs(run, i) ==
    ContentRequest(run.id, modelImage, dollImage, POSES_PROMPTS[i],
                   background, aspectRatio)

\* The request the loop of a run sends when it reaches pose i, built from
\* the arguments generatePromotionalImages was called with.
PoseRequest(run, i) ==
    ContentRequest(run.id, run.modelImage, run.dollImage, POSES_PROMPTS[i],
                   run.background, run.aspectRatio)

\* content parts a response can carry: text, or inline image data
TextPart == [ text |-> "note" ]

ImagePart(q) ==
    [ inlineData |-> [ mimeType |-> "image/png",
                       data |-> [ run |-> q.run, pose |-> q.text.action ] ] ]

IsImagePart(part) == "inlineData" \in DOMAIN part

\* the part lists of the responses considered for request q
Responses(q) ==
    { << ImagePart(q) >>, << TextPart, ImagePart(q) >>, << TextPart >>, << >> }

HasImage(parts) == \E k \in 1 .. Len(parts) : IsImagePart(parts[k])

FirstImage(parts) ==
    parts[CHOOSE k \in 1 .. Len(parts) :
            /\ IsImagePart(parts[k])
            /\ \A j \in 1 .. (k - 1) : ~IsImagePart(parts[j])]

\* the data URL generateSingleImage returns for an image part
DataUrl(part) ==
    [ mimeType |-> part.inlineData.mimeType, data |-> part.inlineData.data ]

\* ---------------------------------------------------------- handleGenerate
GenerateButtonEnabled == ~(modelImage = Null \/ dollImage = Null \/ isLoading)

\* GenerateAgainVisible without the isLoading test
GenerateAgainVisibleWhileLoading == Len(generatedImages) > 0

GenerateAgainVisible == Len(generatedImages) > 0 /\ ~isLoading

\* HandleGenerate without setGeneratedImages([])
HandleGenerateKeepsImages ==
    /\ runCount < MaxRuns
    /\ modelImage # Null /\ dollImage # Null
    /\ LET run == [ id |-> runCount + 1,
                    modelImage |-> modelImage,
                    dollImage |-> dollImage,
                    background |-> background,
                    aspectRatio |-> aspectRatio,
                    pose |-> 1,
                    allGeneratedImages |-> << >>,
                    requests |-> << >>,
                    progress |-> << >> ]
           q == PoseRequest(run, 1)
       IN  /\ isLoading' = TRUE
           /\ error' = NoError
           /\ generationProgress' = 0
           /\ runCount' = runCount + 1
           /\ runs' = runs \cup { [run EXCEPT !.requests = << q >>] }
           /\ inFlight' = inFlight \cup { q }
           /\ UNCHANGED << modelImage, dollImage, background, aspectRatio,
                           generatedImages, uploads, latestDelivered >>

\* handleGenerate up to its await: the state is reset, then
\* generatePromotionalImages runs up to the first generateContent call.
\* requests and progress are the history of the call: the requests it has
\* sent and the arguments onProgress has been called with.
HandleGenerate ==
    /\ runCount < MaxRuns
    /\ IF modelImage = Null \/ dollImage = Null
       THEN /\ error' = MissingInputMessage
            /\ UNCHANGED << modelImage, dollImage, background, aspectRatio,
                            generatedImages, isLoading, generationProgress,
                            uploads, runState, latestDelivered >>
       ELSE LET run == [ id |-> runCount + 1,
                         modelImage |-> modelImage,
                         dollImage |-> dollImage,
                         background |-> background,
                         aspectRatio |-> aspectRatio,
                         pose |-> 1,
                         allGeneratedImages |-> << >>,
                         requests |-> << >>,
                         progress |-> << >> ]
                q == PoseRequest(run, 1)
            IN  /\ isLoading' = TRUE
                /\ error' = NoError
                /\ generatedImages' = << >>
                /\ generationProgress' = 0
                /\ runCount' = runCount + 1
                /\ runs' = runs \cup { [run EXCEPT !.requests = << q >>] }
                /\ inFlight' = inFlight \cup { q }
                /\ UNCHANGED << modelImage, dollImage, background, aspectRatio,
                                uploads, latestDelivered >>

ClickGenerate ==
    /\ GenerateButtonEnabled
    /\ HandleGenerate

ClickGenerateAgain ==
    /\ GenerateAgainVisible
    /\ HandleGenerate

\* Continue with the onProgress call left out of the loop
ContinueWithoutOnProgress(run, q, imageUrl) ==
    /\ IF run.pose < NumPoses
       THEN LET next == PoseRequest(run, run.pose + 1)
            IN  /\ runs' = (runs \ { run }) \cup
                     { [run EXCEPT
                          !.pose = @ + 1,
                          !.allGeneratedImages = Append(@, imageUrl),
                          !.requests = Append(@, next)] }
                /\ inFlight' = (inFlight \ { q }) \cup { next }
                /\ UNCHANGED << isLoading, generationProgress >>
       ELSE /\ runs' = runs \ { run }
            /\ inFlight' = inFlight \ { q }
            /\ isLoading' = FALSE
            /\ generationProgress' = 0
    /\ UNCHANGED << modelImage, dollImage, background, aspectRatio, error,
                    generatedImages, uploads, runCount, latestDelivered >>

\* Continue whose onProgress appends the image but does not count it
ContinueWithoutCount(run, q, imageUrl) ==
    /\ generatedImages' = Append(generatedImages, imageUrl)
    /\ IF run.pose < NumPoses
       THEN LET next == PoseRequest(run, run.pose + 1)
            IN  /\ runs' = (runs \ { run }) \cup
                     { [run EXCEPT
                          !.pose = @ + 1,
                          !.allGeneratedImages = Append(@, imageUrl),
                          !.progress = Append(@, imageUrl),
                          !.requests = Append(@, next)] }
                /\ inFlight' = (inFlight \ { q }) \cup { next }
                /\ UNCHANGED << isLoading, generationProgress >>
       ELSE /\ runs' = runs \ { run }
            /\ inFlight' = inFlight \ { q }
            /\ isLoading' = FALSE
            /\ generationProgress' = 0
    /\ UNCHANGED << modelImage, dollImage, background, aspectRatio, error,
                    uploads, runCount, latestDelivered >>

\* The loop of a run after generateSingleImage returned imageUrl for its
\* current pose: onProgress, push, then the next pose's request, or the
\* return and the finally block of handleGenerate.
Continue(run, q, imageUrl) ==
    /\ generatedImages' = Append(generatedImages, imageUrl)
    /\ IF run.pose < NumPoses
       THEN LET next == PoseRequest(run, run.pose + 1)
            IN  /\ runs' = (runs \ { run }) \cup
                     { [run EXCEPT
                          !.pose = @ + 1,
                          !.allGeneratedImages = Append(@, imageUrl),
                          !.progress = Append(@, imageUrl),
                          !.requests = Append(@, next)] }
                /\ inFlight' = (inFlight \ { q }) \cup { next }
                /\ generationProgress' = generationProgress + 1
                /\ UNCHANGED isLoading
       ELSE /\ runs' = runs \ { run }
            /\ inFlight' = inFlight \ { q }
            /\ isLoading' = FALSE
            /\ generationProgress' = 0
    /\ UNCHANGED << modelImage, dollImage, background, aspectRatio, error,
                    uploads, runCount, latestDelivered >>

\* Abort replaced by a loop that catches the failure of a pose and goes on
\* to the next one
AbortAndContinue(run, q) ==
    /\ IF run.pose < NumPoses
       THEN LET next == PoseRequest(run, run.pose + 1)
            IN  /\ runs' = (runs \ { run }) \cup
                     { [run EXCEPT !.pose = @ + 1,
                                   !.requests = Append(@, next)] }
                /\ inFlight' = (inFlight \ { q }) \cup { next }
                /\ UNCHANGED << isLoading, generationProgress >>
       ELSE /\ runs' = runs \ { run }
            /\ inFlight' = inFlight \ { q }
            /\ isLoading' = FALSE
            /\ generationProgress' = 0
    /\ UNCHANGED << modelImage, dollImage, background, aspectRatio, error,
                    generatedImages, uploads, runCount, latestDelivered >>

\* Abort without the finally block of handleGenerate
AbortWithoutFinally(run, q) ==
    /\ runs' = runs \ { run }
    /\ inFlight' = inFlight \ { q }
    /\ error' = GenerationFailedMessage
    /\ UNCHANGED << modelImage, dollImage, background, aspectRatio,
                    generatedImages, isLoading, generationProgress, uploads,
                    runCount, latestDelivered >>

\* generateSingleImage throws: the loop is left, handleGenerate's catch
\* and finally blocks run.
Abort(run, q) ==
    /\ runs' = runs \ { run }
    /\ inFlight' = inFlight \ { q }
    /\ error' = GenerationFailedMessage
    /\ isLoading' = FALSE
    /\ generationProgress' = 0
    /\ UNCHANGED << modelImage, dollImage, background, aspectRatio,
                    generatedImages, uploads, runCount, latestDelivered >>

RunOf(q) == CHOOSE run \in runs : run.id = q.run

\* the service answers request q with the given content parts
ServiceResponds(q, parts) ==
    /\ q \in inFlight
    /\ IF HasImage(parts)
       THEN Continue(RunOf(q), q, DataUrl(FirstImage(parts)))
       ELSE Abort(RunOf(q), q)

\* the generateContent call for request q rejects
ServiceFails(q) ==
    /\ q \in inFlight
    /\ Abort(RunOf(q), q)

\* ------------------------------------------------------- specifications
Next ==
    \/ \E slot \in Slots, file \in SampleFiles : FileHandler(slot, file)
    \/ \E u \in DOMAIN uploads : ReaderOnload(u)
    \/ \E u \in DOMAIN uploads : ReaderOnerror(u)
    \/ \E u \in DOMAIN uploads : ImageOnload(u)
    \/ \E u \in DOMAIN uploads : ImageOnloadNoContext(u)
    \/ \E u \in DOMAIN uploads : ImageOnerror(u)
    \/ \E b \in backgroundOptions : SetBackground(b)
    \/ \E a \in aspectRatioOptions : SetAspectRatio(a)
    \/ ClickGenerate
    \/ ClickGenerateAgain
    \/ \E q \in inFlight : \E parts \in Responses(q) : ServiceResponds(q, parts)
    \/ \E q \in inFlight : ServiceFails(q)

Spec == Init /\ [][Next]_vars

\* uploads only
UploadNext ==
    \/ \E slot \in Slots, file \in SampleFiles : FileHandler(slot, file)
    \/ \E u \in DOMAIN uploads : ReaderOnload(u)
    \/ \E u \in DOMAIN uploads : ReaderOnerror(u)
    \/ \E u \in DOMAIN uploads : ImageOnload(u)
    \/ \E u \in DOMAIN uploads : ImageOnloadNoContext(u)
    \/ \E u \in DOMAIN uploads : ImageOnerror(u)

SpecUpload == Init /\ [][UploadNext]_vars

\* the first upload of a session, of an image of any of the shapes
NormalizeNext ==
    \/ \E slot \in Slots, file \in ShapeFiles :
          /\ uploads = << >> /\ modelImage = Null /\ dollImage = Null
          /\ FileHandler(slot, file)
    \/ \E u \in DOMAIN uploads : ReaderOnload(u)
    \/ \E u \in DOMAIN uploads : ReaderOnerror(u)
    \/ \E u \in DOMAIN uploads : ImageOnload(u)
    \/ \E u \in DOMAIN uploads : ImageOnloadNoContext(u)
    \/ \E u \in DOMAIN uploads : ImageOnerror(u)

SpecNormalize == Init /\ [][NormalizeNext]_vars

\* generation runs while the user uploads files, one at a time, and
\* changes the selectors
RunNext ==
    \/ \E slot \in Slots, file \in SampleFiles :
          uploads = << >> /\ FileHandler(slot, file)
    \/ \E u \in DOMAIN uploads : ReaderOnload(u)
    \/ \E u \in DOMAIN uploads : ReaderOnerror(u)
    \/ \E u \in DOMAIN uploads : ImageOnload(u)
    \/ \E u \in DOMAIN uploads : ImageOnloadNoContext(u)
    \/ \E u \in DOMAIN uploads : ImageOnerror(u)
    \/ \E b \in backgroundOptions : SetBackground(b)
    \/ \E a \in aspectRatioOptions : SetAspectRatio(a)
    \/ ClickGenerate
    \/ ClickGenerateAgain
    \/ \E q \in inFlight : \E parts \in Responses(q) : ServiceResponds(q, parts)
    \/ \E q \in inFlight : ServiceFails(q)

SpecRun == Init /\ [][RunNext]_vars

\* ================================================================ claims
ActiveIds == { run.id : run \in runs }

RequestsOf(id) == { q \in inFlight : q.run = id }

\* the data URL the service's image for request q becomes
ImageFor(q) == DataUrl(ImagePart(q))

\* this step answers request q of a run without delivering an image
FailsIn(run, q) ==
    /\ run \in runs
    /\ q \in inFlight
    /\ q.run = run.id
    /\ q \notin inFlight'
    /\ generatedImages' = generatedImages

\* this step starts a generation run
StartsRun == runCount' = runCount + 1

\* ---------------------------------------------------------------- C1
\* C1: within one run the requests are sent in the order of POSES_PROMPTS,
\* the request for pose i+1 is sent only after the response for pose i was
\* received and onProgress was called with it, at most one request of the
\* run is in flight, and when the run returns onProgress has been called
\* once per pose, in catalog order.
C1_RunShape ==
    \A run \in runs :
        /\ Len(run.requests) \in 1 .. NumPoses
        /\ \A i \in 1 .. Len(run.requests) :
              run.requests[i].text.action = POSES_PROMPTS[i]
        /\ Len(run.progress) = Len(run.requests) - 1
        /\ \A i \in 1 .. Len(run.progress) :
              run.progress[i] = ImageFor(run.requests[i])
        /\ RequestsOf(run.id) = { run.requests[Len(run.requests)] }

C1_Returns ==
    \A run \in runs :
        (run.id \notin ActiveIds' /\ generatedImages' # generatedImages) =>
            /\ Len(run.requests) = NumPoses
            /\ generatedImages' =
                  [ i \in 1 .. NumPoses |-> ImageFor(run.requests[i]) ]

C1_SequentialInCatalogOrder == [](C1_RunShape) /\ [][C1_Returns]_vars

\* a run has been answered three times and waits for its fourth pose
C1_Witness ==
    \E run \in runs :
        /\ Len(run.progress) = 3
        /\ RequestsOf(run.id) = { run.requests[4] }

\* ---------------------------------------------------------------- C2
\* C2: when the request for the pose at 0-based index k fails, onProgress
\* has been called exactly k times, the run sends no further request (no
\* later pose, no retry) and is settled by the rejection, which reaches the
\* catch block; requests are only ever sent by runs that are in progress.
C2_Failure ==
    \A run \in runs : \A q \in inFlight :
        FailsIn(run, q) =>
            /\ q.text.action = POSES_PROMPTS[run.pose]
            /\ Len(run.progress) = run.pose - 1
            /\ run.id \notin ActiveIds'
            /\ \A q2 \in inFlight' : q2.run # run.id
            /\ error' = GenerationFailedMessage

C2_OnlyActiveRunsSend ==
    \A q \in inFlight' \ inFlight :
        /\ q.run \in ActiveIds'
        /\ q.run \notin ActiveIds => q.run > runCount

C2_FailFast == [][C2_Failure /\ C2_OnlyActiveRunsSend]_vars

\* the run aborted on its fourth pose (index 3) after three calls
C2_Witness ==
    /\ runs = {}
    /\ inFlight = {}
    /\ error = GenerationFailedMessage
    /\ Len(generatedImages) = 3
    /\ generatedImages[3].data.pose = POSES_PROMPTS[3]

\* ---------------------------------------------------------------- C3
\* C3: when a run aborts on its j-th pose, the state handleGenerate leaves
\* has exactly the j-1 images streamed before, in catalog order, isLoading
\* false, generationProgress 0 and the generic failure message.
C3_Abort ==
    \A run \in runs : \A q \in inFlight :
        FailsIn(run, q) =>
            /\ Len(generatedImages') = run.pose - 1
            /\ \A i \in 1 .. Len(generatedImages') :
                  generatedImages'[i] = ImageFor(run.requests[i])
            /\ isLoading' = FALSE
            /\ generationProgress' = 0
            /\ error' = GenerationFailedMessage

C3_AbortedRunState == [][C3_Abort]_vars

\* pose 3 of 6 failed
C3_Witness ==
    /\ runs = {}
    /\ ~isLoading
    /\ generationProgress = 0
    /\ error = GenerationFailedMessage
    /\ Len(generatedImages) = 2
    /\ generatedImages[2].data.pose = POSES_PROMPTS[2]

\* ---------------------------------------------------------------- C4
\* C4: at most one generation run is in progress in every reachable state,
\* and isLoading is true exactly while one is.
C4_NoOverlappingRuns ==
    /\ Cardinality(runs) <= 1
    /\ Cardinality(inFlight) <= 1
    /\ isLoading <=> runs # {}

\* a second run is in progress, with images shown and both inputs present
C4_Witness ==
    /\ runCount = 2
    /\ runs # {}
    /\ Len(generatedImages) > 0
    /\ modelImage # Null /\ dollImage # Null

\* ---------------------------------------------------------------- C5
\* C5: starting a run empties generatedImages and clears error, and at any
\* time generatedImages holds only images of the most recently started run.
C5_OnlyLatestRun ==
    \A i \in 1 .. Len(generatedImages) : generatedImages[i].data.run = runCount

C5_Start ==
    StartsRun => generatedImages' = << >> /\ error' = NoError

C5_RunStartsClean == [](C5_OnlyLatestRun) /\ [][C5_Start]_vars

\* the second of two successful runs has delivered its own six images
C5_Witness ==
    /\ runCount = 2
    /\ runs = {}
    /\ Len(generatedImages) = NumPoses
    /\ \A i \in 1 .. NumPoses : generatedImages[i].data.run = 2
    /\ error = NoError

\* ---------------------------------------------------------------- C9
\* C9: while a run is in progress generationProgress equals the length of
\* generatedImages and grows by exactly 1 with each image received; when no
\* run is in progress it is 0; generatedImages never exceeds six elements.
C9_Count ==
    /\ runs # {} => generationProgress = Len(generatedImages)
    /\ runs = {} => generationProgress = 0
    /\ Len(generatedImages) <= NumPoses

C9_Step ==
    (runs # {} /\ runs' # {}) =>
        /\ generationProgress' \in { generationProgress, generationProgress + 1 }
        /\ Len(generatedImages') = Len(generatedImages) + 1
              <=> generationProgress' = generationProgress + 1

C9_ProgressConsistent == [](C9_Count) /\ [][C9_Step]_vars

\* four images received, the run still in progress
C9_Witness ==
    /\ runs # {}
    /\ generationProgress = 4
    /\ Len(generatedImages) = 4

\* --------------------------------------------------------------- C10
\* C10: every request of a run carries the model image, doll image,
\* background and aspect ratio that were current when handleGenerate was
\* invoked, whatever the user uploads or selects during the run.
SameInputs(q, model, doll, bg, ratio) ==
    /\ q.parts[1] = [ data |-> model.base64, mimeType |-> model.mimeType ]
    /\ q.parts[2] = [ data |-> doll.base64, mimeType |-> doll.mimeType ]
    /\ q.text.background = bg
    /\ q.text.ratio = getRatioDescription(ratio)

C10_RequestsAgree ==
    \A run \in runs : \A i \in 1 .. Len(run.requests) :
        /\ run.requests[i].parts = run.requests[1].parts
        /\ run.requests[i].text.background = run.requests[1].text.background
        /\ run.requests[i].text.ratio = run.requests[1].text.ratio

C10_Start ==
    StartsRun =>
        \A q \in inFlight' \ inFlight :
            SameInputs(q, modelImage, dollImage, background, aspectRatio)

C10_InputsFixedAtStart == [](C10_RequestsAgree) /\ [][C10_Start]_vars

\* a run is past its first pose while every input differs from the one
\* its requests carry
C10_Witness ==
    \E run \in runs :
        /\ Len(run.requests) >= 3
        /\ modelImage # run.modelImage
        /\ dollImage # run.dollImage
        /\ background # run.background
        /\ aspectRatio # run.aspectRatio
        /\ SameInputs(run.requests[3], run.modelImage, run.dollImage,
                      run.background, run.aspectRatio)

\* ---------------------------------------------------------------- C6
\* C6: an upload that fails (read error, decode error, no canvas context)
\* sets an error message and leaves both slots' artifacts as they were; a
\* slot is only ever set to the normalised image of a decoded upload.
UploadErrorMessages ==
    { ReadErrorMessage, DecodeErrorMessage, ContextErrorMessage }

Delivered(u) ==
    /\ uploads[u].stage = "decoding"
    /\ IF uploads[u].slot = "model"
       THEN modelImage' = ProcessedImage(uploads[u].file) /\ dollImage' = dollImage
       ELSE dollImage' = ProcessedImage(uploads[u].file) /\ modelImage' = modelImage
    /\ error' = error

FailedCleanly(u) ==
    /\ error' \in UploadErrorMessages
    /\ uploads[u].stage = "reading" => error' = ReadErrorMessage
    /\ modelImage' = modelImage
    /\ dollImage' = dollImage

C6_Settles ==
    \A u \in DOMAIN uploads :
        uploads' = Remove(uploads, u) => Delivered(u) \/ FailedCleanly(u)

C6_SetterOnlyOnSuccess ==
    (modelImage' # modelImage \/ dollImage' # dollImage) =>
        \E u \in DOMAIN uploads : uploads' = Remove(uploads, u) /\ Delivered(u)

C6_FailedUploadKeepsArtifacts == [][C6_Settles /\ C6_SetterOnlyOnSuccess]_vars

\* the latest file chosen for the model slot failed to decode, and the
\* artifact accepted before it is still there
C6_Witness ==
    /\ uploads = << >>
    /\ error = DecodeErrorMessage
    /\ modelImage # Null
    /\ latestDelivered["model"] = Null

\* ---------------------------------------------------------------- C7
\* C7: uploads are delivered in the order in which their files were
\* selected, so once the file most recently selected for a slot has been
\* delivered, the slot holds its artifact.
C7_SlotHoldsLatestSelection ==
    \A slot \in Slots :
        latestDelivered[slot] # Null =>
            SlotImage(slot) = ProcessedImage(latestDelivered[slot])

\* ---------------------------------------------------------------- C8
\* C8: the rectangle drawn for a w x h image lies within the 720 x 1280
\* canvas, has the proportions w : h and equal margins on opposite sides;
\* if 16w > 9h it is 720 wide and less than 1280 high, otherwise it is
\* 1280 high and at most 720 wide.
Letterboxed(canvas) ==
    LET w == canvas.width
        h == canvas.height
        r == canvas.rect
        right == RatAdd(r.x, r.drawWidth)
        bottom == RatAdd(r.y, r.drawHeight)
    IN  /\ RatLeq(FromInt(0), r.x)
        /\ RatLeq(FromInt(0), r.y)
        /\ RatLeq(right, FromInt(canvasWidth))
        /\ RatLeq(bottom, FromInt(canvasHeight))
        /\ RatDiv(r.drawWidth, r.drawHeight) = Rat(w, h)
        /\ r.x = RatSub(FromInt(canvasWidth), right)
        /\ r.y = RatSub(FromInt(canvasHeight), bottom)
        /\ IF 16 * w > 9 * h
           THEN /\ r.drawWidth = FromInt(canvasWidth)
                /\ RatLess(r.drawHeight, FromInt(canvasHeight))
           ELSE /\ r.drawHeight = FromInt(canvasHeight)
                /\ RatLeq(r.drawWidth, FromInt(canvasWidth))

====
